---- MODULE Spec2Model ----
(***************************************************************************)
(* Model of backend/parser/whatsapp_parser.py (parse_chat_file) and of     *)
(* backend/media/audio_transcription.py (the merge of the transcriptions), *)
(* and of the upload endpoint of backend/api/routes.py that calls them.    *)
(*                                                                         *)
(* Text is modelled at character level: a string is a sequence of          *)
(* one-character strings, with the invisible characters named below.       *)
(* The three regular expressions are matched on those sequences as         *)
(* re.match does (anchored at position 1, not anchored at the end).        *)
(***************************************************************************)
EXTENDS Integers, Sequences, FiniteSets, TLC

(***************************************************************************)
(* Bounds of the model.                                                    *)
(***************************************************************************)
MaxLines == 3
MaxLayoutLines == 2
MaxOrphanLines == 10
MaxVariedLines == 4
MaxMarkChars == 3
MaxMediaFiles == 2

(***************************************************************************)
(* Characters.                                                             *)
(***************************************************************************)
NL == "\n"
NNBSP == "u202f"
LRM == "u200e"
LS == "u2028"
BOM == "ufeff"

DigitVal == [c \in {"0", "1", "2", "3", "4", "5", "6", "7", "8", "9"} |->
               CASE c = "0" -> 0 [] c = "1" -> 1 [] c = "2" -> 2 [] c = "3" -> 3
                 [] c = "4" -> 4 [] c = "5" -> 5 [] c = "6" -> 6 [] c = "7" -> 7
                 [] c = "8" -> 8 [] c = "9" -> 9]

\* \d of the regular expressions
IsDigit(c) == c \in DOMAIN DigitVal

\* \s of the regular expressions and the characters str.strip() removes
IsSpace(c) == c \in {" ", NL, NNBSP, LS}

(***************************************************************************)
(* String helpers (str methods used by the parser).                        *)
(***************************************************************************)
\* sep.join(parts) with sep = " "
RECURSIVE Join(_)
Join(parts) ==
  IF parts = <<>> THEN <<>>
  ELSE IF Len(parts) = 1 THEN parts[1]
  ELSE parts[1] \o <<" ">> \o Join(Tail(parts))

\* s.strip()
Strip(s) ==
  LET keep == {k \in 1..Len(s) : ~IsSpace(s[k])}
  IN IF keep = {} THEN <<>>
     ELSE LET lo == CHOOSE k \in keep : \A j \in keep : k <= j
              hi == CHOOSE k \in keep : \A j \in keep : k >= j
          IN SubSeq(s, lo, hi)

\* positions at which pat occurs in s
Occurrences(s, pat) ==
  {k \in 1..(Len(s) - Len(pat) + 1) : SubSeq(s, k, k + Len(pat) - 1) = pat}

\* pat in s
Contains(s, pat) == Occurrences(s, pat) # {}

\* s.split(pat)[0]
SplitFirst(s, pat) ==
  IF ~Contains(s, pat) THEN s
  ELSE LET k == CHOOSE p \in Occurrences(s, pat) : \A q \in Occurrences(s, pat) : p <= q
       IN SubSeq(s, 1, k - 1)

\* s.endswith(pat)
EndsWith(s, pat) ==
  Len(s) >= Len(pat) /\ SubSeq(s, Len(s) - Len(pat) + 1, Len(s)) = pat

\* a variant that turns a left-to-right mark into a line separator
NormalizeLineMarkToSeparator(line) ==
  [k \in 1..Len(line) |->
     IF line[k] = NNBSP THEN " " ELSE IF line[k] = LRM THEN LS
     ELSE IF line[k] = LS THEN " " ELSE line[k]]

\* line.replace(U+202F, ' ').replace(U+200E, '').replace(U+2028, ' ')
RECURSIVE NormalizeLine(_)
NormalizeLine(line) ==
  IF line = <<>> THEN <<>>
  ELSE IF Len(line) = 1
  THEN (IF line[1] \in {NNBSP, LS} THEN <<" ">> ELSE IF line[1] = LRM THEN <<>> ELSE line)
  ELSE LET half == Len(line) \div 2
       IN NormalizeLine(SubSeq(line, 1, half)) \o NormalizeLine(SubSeq(line, half + 1, Len(line)))

(***************************************************************************)
(* Regular expressions.  A matcher maps a set of start positions to the    *)
(* set of positions just after a match of the sub-pattern.                 *)
(***************************************************************************)
At(s, p) == IF p >= 1 /\ p <= Len(s) THEN s[p] ELSE "EOS"

\* \d{lo,hi}
Digits(s, P, lo, hi) ==
  UNION {{p + k : k \in {n \in lo..hi : \A j \in 0..(n - 1) : IsDigit(At(s, p + j))}} : p \in P}

\* a literal character
Lit(s, P, c) == {p + 1 : p \in {q \in P : At(s, q) = c}}

\* the number of whitespace characters of s from position p on
RECURSIVE SpaceRun(_, _)
SpaceRun(s, p) == IF IsSpace(At(s, p)) THEN 1 + SpaceRun(s, p + 1) ELSE 0

\* \s*
Spaces(s, P) == UNION {p..(p + SpaceRun(s, p)) : p \in P}

\* (?:[AP]M)? ; ic is re.IGNORECASE
Meridiem(s, P, ic) ==
  P \cup {p + 2 : p \in {q \in P :
            /\ At(s, q) \in (IF ic THEN {"A", "P", "a", "p"} ELSE {"A", "P"})
            /\ At(s, q + 1) \in (IF ic THEN {"M", "m"} ELSE {"M"})}}

\* (?::\d{2})?
OptSeconds(s, P) == P \cup Digits(s, Lit(s, P, ":"), 2, 2)

\* \d{1,2}/\d{1,2}/\d{2,4},
DateEnds(s, p) ==
  Lit(s, Digits(s, Lit(s, Digits(s, Lit(s, Digits(s, {p}, 1, 2), "/"), 1, 2), "/"), 2, 4), ",")

\* \d{1,2}/\d{1,2}/\d{2,4},\s*\d{1,2}:\d{2}(?::\d{2})?\s*(?:[AP]M)?
TimestampEnds(s, p, ic) ==
  Meridiem(s, Spaces(s, OptSeconds(s, Digits(s, Lit(s, Digits(s, Spaces(s, DateEnds(s, p)), 1, 2), ":"), 2, 2))), ic)

NoMatch == [ok |-> FALSE, g1 |-> <<>>, g2 |-> <<>>, g3 |-> <<>>]

\* the least element of a non-empty set of positions
First(S) == CHOOSE k \in S : \A j \in S : k <= j

\* (.*) or (.+) at position q: the run of characters other than a newline
DotRun(s, q) == SubSeq(s, q, First({k \in q..(Len(s) + 1) : At(s, k) \in {NL, "EOS"}}) - 1)

\* \s?(.*) or \s?(.+) after the colon at position c: the optional whitespace is
\* taken when the rest of the pattern still matches after it
BodyAfter(s, c, plus) ==
  IF IsSpace(At(s, c + 1)) /\ (~plus \/ DotRun(s, c + 2) # <<>>)
  THEN DotRun(s, c + 2)
  ELSE DotRun(s, c + 1)

\* the groups, given the sender from p up to the colon at c and the body
Groups(s, p, c, g1, body, plus) ==
  IF c = p \/ (plus /\ body = <<>>) THEN NoMatch
  ELSE [ok |-> TRUE, g1 |-> g1, g2 |-> SubSeq(s, p, c - 1), g3 |-> body]

SenderBodyAt(s, p, c, g1, plus) == Groups(s, p, c, g1, BodyAfter(s, c, plus), plus)

\* ([^:]+):\s?(.*)  or  ([^:]+):\s?(.+)  from position p ; g1 is the timestamp
SenderBody(s, p, g1, plus) ==
  IF \A k \in p..Len(s) : s[k] # ":" THEN NoMatch
  ELSE SenderBodyAt(s, p, First({k \in p..Len(s) : s[k] = ":"}), g1, plus)

\* the match, given the positions at which the timestamp and what follows it may end
AfterTimestamp(s, ends, from, skip, plus) ==
  IF ends = {} THEN NoMatch
  ELSE SenderBody(s, First(ends) + skip, SubSeq(s, from, First(ends) - 1), plus)

\* \[(timestamp)\]\s([^:]+):\s?(body)
Bracketed(s, ic, plus) ==
  IF At(s, 1) # "[" THEN NoMatch
  ELSE AfterTimestamp(s, {e \in TimestampEnds(s, 2, ic) : At(s, e) = "]" /\ IsSpace(At(s, e + 1))},
                      2, 2, plus)

\* a variant in which the bracketed expression matches no line
ChatRegexNeverMatches(s) == NoMatch

WHATSAPP_CHAT_REGEX(s) == Bracketed(s, TRUE, FALSE)

\* a variant of the legacy expression that reads the meridiem marker in upper case only
LegacyRegexCaseSensitive(s) ==
  AfterTimestamp(s, {e \in TimestampEnds(s, 1, FALSE) :
                       IsSpace(At(s, e)) /\ At(s, e + 1) = "-" /\ IsSpace(At(s, e + 2))},
                 1, 3, FALSE)

\* (timestamp)\s-\s([^:]+):\s?(.*)
WHATSAPP_LEGACY_REGEX(s) ==
  AfterTimestamp(s, {e \in TimestampEnds(s, 1, TRUE) :
                       IsSpace(At(s, e)) /\ At(s, e + 1) = "-" /\ IsSpace(At(s, e + 2))},
                 1, 3, FALSE)

SYSTEM_MESSAGE_REGEX(s) == Bracketed(s, FALSE, TRUE)

(***************************************************************************)
(* Message-type inference on the stripped body of a header line.           *)
(***************************************************************************)
None == [isNone |-> TRUE, val |-> <<>>]
Some(v) == [isNone |-> FALSE, val |-> v]

MEDIA_OMITTED_MSG ==
  <<"<", "M", "e", "d", "i", "a", " ", "o", "m", "i", "t", "t", "e", "d", ">">>
FILE_ATTACHED ==
  <<"(", "f", "i", "l", "e", " ", "a", "t", "t", "a", "c", "h", "e", "d", ")">>
DOT_OPUS == <<".", "o", "p", "u", "s">>

\* "voice_note" if ".opus" in media_filename else "media"
AttachmentType(media_filename) ==
  IF Contains(media_filename, DOT_OPUS) THEN "voice_note" ELSE "media"

ClassifyBody(message_text) ==
  IF Contains(message_text, MEDIA_OMITTED_MSG)
  THEN [message |-> <<>>, message_type |-> "media", media_filename |-> None]
  ELSE IF Contains(message_text, FILE_ATTACHED)
  THEN LET media_filename == Strip(SplitFirst(message_text, FILE_ATTACHED))
       IN [message |-> <<>>, message_type |-> AttachmentType(media_filename),
           media_filename |-> Some(media_filename)]
  ELSE [message |-> message_text, message_type |-> "text", media_filename |-> None]

(***************************************************************************)
(* The body of the loop over the lines: one line is classified and the     *)
(* accumulator is updated.  st holds the five loop variables.              *)
(***************************************************************************)
\* a variant that adds the pending lines to the first record
FlushPendingToFirst(chat_data, current_message_lines) ==
  IF current_message_lines = <<>> \/ chat_data = <<>> THEN chat_data
  ELSE [chat_data EXCEPT ![1].message = @ \o Join(current_message_lines)]

\* chat_data[-1]['message'] += ' '.join(current_message_lines)
FlushPending(chat_data, current_message_lines) ==
  IF current_message_lines = <<>> \/ chat_data = <<>> THEN chat_data
  ELSE [chat_data EXCEPT ![Len(chat_data)].message = @ \o Join(current_message_lines)]

\* the record opened by a match of a header regex, c its classified body
OpenedRecord(m, c) ==
  [timestamp_str |-> m.g1, sender |-> m.g2, message |-> c.message,
   message_type |-> c.message_type, media_filename |-> c.media_filename]

HeaderRecord(m) == OpenedRecord(m, ClassifyBody(Strip(m.g3)))

\* a variant that keeps the captured sender text
SystemRecordKeepsSender(m) ==
  [timestamp_str |-> m.g1, sender |-> m.g2,
   message |-> Strip(m.g3), message_type |-> "system", media_filename |-> None]

\* the record opened by a match of the system-notice regex
SystemRecord(m) ==
  [timestamp_str |-> m.g1, sender |-> <<"S", "y", "s", "t", "e", "m">>,
   message |-> Strip(m.g3), message_type |-> "system", media_filename |-> None]

\* the first match if it is one, else the second
OrElse(first, second) == IF first.ok THEN first ELSE second

\* match = CHAT.match(line) ; if not match: match = LEGACY.match(line)
HeaderMatch(normalized_line) ==
  OrElse(WHATSAPP_CHAT_REGEX(normalized_line), WHATSAPP_LEGACY_REGEX(normalized_line))

\* system_match = SYSTEM.match(line) if not match else None
SystemMatch(match, normalized_line) ==
  IF match.ok THEN NoMatch ELSE SYSTEM_MESSAGE_REGEX(normalized_line)

\* a variant that keeps a line read before the first header as a pending line
OutcomeOrphanPending(match, system_match, chat_data) ==
  IF match.ok THEN "header"
  ELSE IF system_match.ok THEN "system"
  ELSE "continuation"

\* a variant that takes a line for a continuation of the first record only
OutcomeFirstRecordOnly(match, system_match, chat_data) ==
  IF match.ok THEN "header"
  ELSE IF system_match.ok THEN "system"
  ELSE IF Len(chat_data) = 1 THEN "continuation"
  ELSE "unmatched"

\* the outcome of the if / elif chain for one line
Outcome(match, system_match, chat_data) ==
  IF match.ok THEN "header"
  ELSE IF system_match.ok THEN "system"
  ELSE IF chat_data # <<>> THEN "continuation"
  ELSE "unmatched"

\* a variant that keeps one more sample
MaxSamplesPlusOne == 3 + 1

\* if len(unmatched_samples) < 3
MaxSamples == 3

\* a variant that counts a continuation line as matched
MatchedIncrementWithContinuations(outcome) ==
  IF outcome \in {"header", "system", "continuation"} THEN 1 ELSE 0

\* matched_count += 1 is in the header branch and in the system-notice branch
MatchedIncrement(outcome) == IF outcome \in {"header", "system"} THEN 1 ELSE 0

\* a variant that counts a continuation line as unmatched as well
UnmatchedIncrementWithContinuations(outcome) ==
  IF outcome \in {"unmatched", "continuation"} THEN 1 ELSE 0

\* unmatched_count += 1 is in the last else branch
UnmatchedIncrement(outcome) == IF outcome = "unmatched" THEN 1 ELSE 0

\* the branch taken for a line: the matches, the outcome and the trimmed line
Branch(match, system_match, outcome, stripped) ==
  [match |-> match, system_match |-> system_match, outcome |-> outcome, stripped |-> stripped]

BranchOfMatches(st, normalized_line, match, system_match) ==
  Branch(match, system_match, Outcome(match, system_match, st.chat_data), Strip(normalized_line))

BranchOfMatch(st, normalized_line, match) ==
  BranchOfMatches(st, normalized_line, match, SystemMatch(match, normalized_line))

BranchOfLine(st, normalized_line) ==
  BranchOfMatch(st, normalized_line, HeaderMatch(normalized_line))

\* a variant in which a line is taken for a continuation only while no line was
\* counted unmatched
TakeReadingCounters(st, b) ==
  [chat_data |->
     IF b.outcome = "header"
     THEN Append(FlushPending(st.chat_data, st.current_message_lines), HeaderRecord(b.match))
     ELSE IF b.outcome = "system"
     THEN Append(FlushPending(st.chat_data, st.current_message_lines), SystemRecord(b.system_match))
     ELSE st.chat_data,
   current_message_lines |->
     IF b.outcome \in {"header", "system"} THEN <<>>
     ELSE IF b.outcome = "continuation" /\ st.unmatched_count = 0
     THEN Append(st.current_message_lines, b.stripped)
     ELSE st.current_message_lines,
   matched_count |-> st.matched_count + MatchedIncrement(b.outcome),
   unmatched_count |-> st.unmatched_count + UnmatchedIncrement(b.outcome),
   unmatched_samples |->
     IF b.outcome = "unmatched" /\ Len(st.unmatched_samples) < MaxSamples
     THEN Append(st.unmatched_samples, b.stripped)
     ELSE st.unmatched_samples]

\* the loop variables after the branch b was run
Take(st, b) ==
  [chat_data |->
     IF b.outcome = "header"
     THEN Append(FlushPending(st.chat_data, st.current_message_lines), HeaderRecord(b.match))
     ELSE IF b.outcome = "system"
     THEN Append(FlushPending(st.chat_data, st.current_message_lines), SystemRecord(b.system_match))
     ELSE st.chat_data,
   current_message_lines |->
     IF b.outcome \in {"header", "system"} THEN <<>>
     ELSE IF b.outcome = "continuation" THEN Append(st.current_message_lines, b.stripped)
     ELSE st.current_message_lines,
   matched_count |-> st.matched_count + MatchedIncrement(b.outcome),
   unmatched_count |-> st.unmatched_count + UnmatchedIncrement(b.outcome),
   unmatched_samples |->
     IF b.outcome = "unmatched" /\ Len(st.unmatched_samples) < MaxSamples
     THEN Append(st.unmatched_samples, b.stripped)
     ELSE st.unmatched_samples]

\* the body of the loop for one line
Step(st, line) == Take(st, BranchOfLine(st, NormalizeLine(line)))

\* the loop variables before the first line
LoopStart ==
  [chat_data |-> <<>>, current_message_lines |-> <<>>, matched_count |-> 0,
   unmatched_count |-> 0, unmatched_samples |-> <<>>]

(***************************************************************************)
(* pd.to_datetime(df['timestamp_str'], errors='coerce').                   *)
(*                                                                         *)
(* The column holds texts that matched the timestamp part of a header      *)
(* regex.  An instant is <<year, month, day, hour, minute, second>>, NaT   *)
(* is the empty tuple.  No format and no dayfirst is passed, so pandas     *)
(* (2.x, the version that knows format='mixed') guesses one strptime       *)
(* format from the first element and parses every element with it; when   *)
(* no format can be guessed each element is parsed on its own by dateutil. *)
(* With errors='coerce' an element that does not parse becomes NaT and     *)
(* the call does not raise.                                                *)
(***************************************************************************)
NaT == <<>>

RECURSIVE NumVal(_)
NumVal(ds) == IF ds = <<>> THEN 0 ELSE 10 * NumVal(SubSeq(ds, 1, Len(ds) - 1)) + DigitVal[ds[Len(ds)]]

\* the greatest element of a non-empty set of positions
Last(S) == CHOOSE k \in S : \A j \in S : k >= j

\* the positions of the character c in t
PositionsOf(t, c) == {k \in 1..Len(t) : t[k] = c}

\* the number written by the digits of t strictly between two positions
NumberBetween(t, a, b) ==
  NumVal(SubSeq(t, First({k \in (a + 1)..b : IsDigit(At(t, k))}),
                   Last({k \in a..(b - 1) : IsDigit(At(t, k))})))

\* the meridiem marker at the end of t
MeridiemOf(t) ==
  IF At(t, Len(t)) \notin {"M", "m"} THEN "none"
  ELSE IF At(t, Len(t) - 1) \in {"A", "a"} THEN "AM" ELSE "PM"

\* the fields of a timestamp text and the layout a strptime format fixes
TsFields(t) ==
  LET slash1 == First(PositionsOf(t, "/"))
      slash2 == Last(PositionsOf(t, "/"))
      comma == First(PositionsOf(t, ","))
      colon == First(PositionsOf(t, ":"))
      hasSec == Cardinality(PositionsOf(t, ":")) = 2
  IN [f1 |-> NumberBetween(t, 0, slash1),
      f2 |-> NumberBetween(t, slash1, slash2),
      f3 |-> NumberBetween(t, slash2, comma),
      ylen |-> comma - slash2 - 1,
      hour |-> NumberBetween(t, comma, colon),
      minute |-> NumberBetween(t, colon, colon + 3),
      hasSec |-> hasSec,
      second |-> IF hasSec THEN NumberBetween(t, colon + 3, colon + 6) ELSE 0,
      mer |-> MeridiemOf(t),
      gapDate |-> IsSpace(At(t, comma + 1)),
      gapMer |-> MeridiemOf(t) # "none" /\ IsSpace(At(t, Len(t) - 2))]

DaysInMonth(year, month) ==
  IF month \in {4, 6, 9, 11} THEN 30
  ELSE IF month = 2 THEN (IF year % 4 = 0 /\ (year % 100 # 0 \/ year % 400 = 0) THEN 29 ELSE 28)
  ELSE 31

\* datetime(year, month, day, hour, minute, second), NaT when a field is out of range
MakeInstant(year, month, day, hour, minute, second) ==
  IF /\ year \in 1678..2261
     /\ month \in 1..12
     /\ day >= 1 /\ day <= DaysInMonth(year, month)
     /\ hour \in 0..23 /\ minute \in 0..59 /\ second \in 0..59
  THEN <<year, month, day, hour, minute, second>>
  ELSE NaT

\* the 24-hour value of an hour with a meridiem marker
Hour24(hour, mer) ==
  IF mer = "PM" /\ hour < 12 THEN hour + 12
  ELSE IF mer = "AM" /\ hour = 12 THEN 0
  ELSE hour

\* dateutil's reading of a/b/c with dayfirst=False and yearfirst=False
ResolveYMD(f) ==
  LET yr(v, len) == IF len > 2 THEN v ELSE IF 2000 + v >= 2075 THEN 1900 + v ELSE 2000 + v
  IN IF f.f1 > 31 THEN [year |-> yr(f.f1, 2), month |-> f.f2, day |-> f.f3, order |-> "YMD"]
     ELSE IF f.f1 > 12 THEN [year |-> yr(f.f3, f.ylen), month |-> f.f2, day |-> f.f1, order |-> "DMY"]
     ELSE [year |-> yr(f.f3, f.ylen), month |-> f.f1, day |-> f.f2, order |-> "MDY"]

\* the instant dateutil makes of the fields f read as the date d
DateutilInstant(f, d) ==
  IF f.mer # "none" /\ f.hour > 12 THEN NaT
  ELSE MakeInstant(d.year, d.month, d.day, Hour24(f.hour, f.mer), f.minute, f.second)

DateutilFields(f) == DateutilInstant(f, ResolveYMD(f))

\* one element parsed by dateutil
DateutilParse(t) == DateutilFields(TsFields(t))

\* the strptime format guessed from the fields of the first element (ok = FALSE: none)
GuessFields(f, d) ==
  [ok |-> f.ylen = 4 /\ DateutilInstant(f, d) # NaT /\ d.order # "YMD",
   order |-> d.order, hasSec |-> f.hasSec, mer |-> f.mer # "none",
   gapDate |-> f.gapDate, gapMer |-> f.gapMer]

\* the strptime format guessed from the first element
GuessFormat(t) == GuessFields(TsFields(t), ResolveYMD(TsFields(t)))

\* the fields of one element parsed with the guessed format
StrptimeFields(f, fmt) ==
  IF \/ f.ylen # 4 \/ f.hasSec # fmt.hasSec \/ (f.mer # "none") # fmt.mer
     \/ f.gapDate # fmt.gapDate \/ f.gapMer # fmt.gapMer
     \/ (fmt.mer /\ f.hour \notin 1..12)
  THEN NaT
  ELSE IF fmt.order = "DMY"
  THEN MakeInstant(f.f3, f.f2, f.f1, Hour24(f.hour, f.mer), f.minute, f.second)
  ELSE MakeInstant(f.f3, f.f1, f.f2, Hour24(f.hour, f.mer), f.minute, f.second)

\* one element parsed with the guessed format
StrptimeParse(t, fmt) == StrptimeFields(TsFields(t), fmt)

\* every element parsed with the format fmt, or by dateutil when there is none
ParseColumn(column, fmt) ==
  [k \in 1..Len(column) |->
     IF fmt.ok THEN StrptimeParse(column[k], fmt) ELSE DateutilParse(column[k])]

\* pd.to_datetime(column, errors='coerce')
ToDatetime(column) ==
  IF column = <<>> THEN <<>> ELSE ParseColumn(column, GuessFormat(column[1]))

\* instants compare as tuples, most significant field first
RECURSIVE TupleLess(_, _)
TupleLess(a, b) ==
  IF a = <<>> \/ b = <<>> THEN FALSE
  ELSE IF Head(a) # Head(b) THEN Head(a) < Head(b)
  ELSE TupleLess(Tail(a), Tail(b))

(***************************************************************************)
(* Input lines.  f.readlines() keeps the newline that ends each line.      *)
(***************************************************************************)
\* "[01/02/2023, 09:15] Alice: line one" : the header of the multi-line example
LineAlice ==
  <<"[", "0", "1", "/", "0", "2", "/", "2", "0", "2", "3", ",", " ", "0",
  "9", ":", "1", "5", "]", " ", "A", "l", "i", "c", "e", ":", " ", "l", "i",
  "n", "e", " ", "o", "n", "e", "\n">>

\* "line two" : a line with no header shape
LineTwo ==
  <<"l", "i", "n", "e", " ", "t", "w", "o", "\n">>

\* "[01/02/2023, 09:15] Bob: hi" : same minute as LineAlice
LineBob ==
  <<"[", "0", "1", "/", "0", "2", "/", "2", "0", "2", "3", ",", " ", "0",
  "9", ":", "1", "5", "]", " ", "B", "o", "b", ":", " ", "h", "i", "\n">>

\* "[01/01/2023, 08:00] Bob: yo" : earlier than LineAlice
LineEarly ==
  <<"[", "0", "1", "/", "0", "1", "/", "2", "0", "2", "3", ",", " ", "0",
  "8", ":", "0", "0", "]", " ", "B", "o", "b", ":", " ", "y", "o", "\n">>

\* "[99/99/2023, 10:00] Bob: hi" : header-shaped, timestamp not a date
LineBadTs ==
  <<"[", "9", "9", "/", "9", "9", "/", "2", "0", "2", "3", ",", " ", "1",
  "0", ":", "0", "0", "]", " ", "B", "o", "b", ":", " ", "h", "i", "\n">>

\* "[01/02/2023, 09:15] System: hi" : a sender literally named System
LineSystem ==
  <<"[", "0", "1", "/", "0", "2", "/", "2", "0", "2", "3", ",", " ", "0",
  "9", ":", "1", "5", "]", " ", "S", "y", "s", "t", "e", "m", ":", " ", "h",
  "i", "\n">>

\* "[01/02/2023, 09:15] Bob: <Media omitted>" : media-omitted marker
LineOmitted ==
  <<"[", "0", "1", "/", "0", "2", "/", "2", "0", "2", "3", ",", " ", "0",
  "9", ":", "1", "5", "]", " ", "B", "o", "b", ":", " ", "<", "M", "e", "d",
  "i", "a", " ", "o", "m", "i", "t", "t", "e", "d", ">", "\n">>

\* "[01/02/2023, 09:15] Bob: a.opus (file attached)" : attached voice note
LineOpus ==
  <<"[", "0", "1", "/", "0", "2", "/", "2", "0", "2", "3", ",", " ", "0",
  "9", ":", "1", "5", "]", " ", "B", "o", "b", ":", " ", "a", ".", "o", "p",
  "u", "s", " ", "(", "f", "i", "l", "e", " ", "a", "t", "t", "a", "c", "h",
  "e", "d", ")", "\n">>

\* "[01/02/2023, 09:15] Bob: a.opus.txt (file attached)" : attached file, .opus not the extension
LineOpusTxt ==
  <<"[", "0", "1", "/", "0", "2", "/", "2", "0", "2", "3", ",", " ", "0",
  "9", ":", "1", "5", "]", " ", "B", "o", "b", ":", " ", "a", ".", "o", "p",
  "u", "s", ".", "t", "x", "t", " ", "(", "f", "i", "l", "e", " ", "a", "t",
  "t", "a", "c", "h", "e", "d", ")", "\n">>

\* "[01/02/2023, 09:15] Bob: (file attached)" : attached-file marker with nothing before it
LineNoName ==
  <<"[", "0", "1", "/", "0", "2", "/", "2", "0", "2", "3", ",", " ", "0",
  "9", ":", "1", "5", "]", " ", "B", "o", "b", ":", " ", "(", "f", "i", "l",
  "e", " ", "a", "t", "t", "a", "c", "h", "e", "d", ")", "\n">>

\* "[01/02/2023, 09:15] Bob: b.jpg (file attached)" : attached picture
LineJpg ==
  <<"[", "0", "1", "/", "0", "2", "/", "2", "0", "2", "3", ",", " ", "0",
  "9", ":", "1", "5", "]", " ", "B", "o", "b", ":", " ", "b", ".", "j", "p",
  "g", " ", "(", "f", "i", "l", "e", " ", "a", "t", "t", "a", "c", "h", "e",
  "d", ")", "\n">>

\* "" : an empty line
LineEmpty ==
  <<"\n">>

\* "01/02/2023, 09:16 - Bob: hi" : legacy hyphen header
LineLegacy ==
  <<"0", "1", "/", "0", "2", "/", "2", "0", "2", "3", ",", " ", "0", "9",
  ":", "1", "6", " ", "-", " ", "B", "o", "b", ":", " ", "h", "i", "\n">>

\* "[13/02/2023, 09:15] Bob: hi" : a date whose first field is a day
LineDayFirst ==
  <<"[", "1", "3", "/", "0", "2", "/", "2", "0", "2", "3", ",", " ", "0",
  "9", ":", "1", "5", "]", " ", "B", "o", "b", ":", " ", "h", "i", "\n">>

\* "[01/02/2023, 09:15] Bob: a.opus (file attached) <Media omitted>" : both markers
LineBoth ==
  <<"[", "0", "1", "/", "0", "2", "/", "2", "0", "2", "3", ",", " ", "0",
  "9", ":", "1", "5", "]", " ", "B", "o", "b", ":", " ", "a", ".", "o",
  "p", "u", "s", " ", "(", "f", "i", "l", "e", " ", "a", "t", "t", "a",
  "c", "h", "e", "d", ")", " ", "<", "M", "e", "d", "i", "a", " ", "o",
  "m", "i", "t", "t", "e", "d", ">", "\n">>

\* U+FEFF "[01/02/2023, 09:15] Bob: hi" : a header after the byte-order mark that
\* open(file_path, 'r', encoding='utf-8') leaves on the first line
LineBom ==
  <<BOM, "[", "0", "1", "/", "0", "2", "/", "2", "0", "2", "3", ",", " ",
  "0", "9", ":", "1", "5", "]", " ", "B", "o", "b", ":", " ", "h", "i",
  "\n">>

\* U+200E "[01/02/2023, 09:15] Bob: hi" : a header after a left-to-right mark
LineLrm ==
  <<LRM, "[", "0", "1", "/", "0", "2", "/", "2", "0", "2", "3", ",", " ",
  "0", "9", ":", "1", "5", "]", " ", "B", "o", "b", ":", " ", "h", "i",
  "\n">>

\* "[01/02/2023, 09:16] Bob: b.opus (file attached)" : a second voice note
LineOpusB ==
  <<"[", "0", "1", "/", "0", "2", "/", "2", "0", "2", "3", ",", " ", "0",
  "9", ":", "1", "6", "]", " ", "B", "o", "b", ":", " ", "b", ".", "o",
  "p", "u", "s", " ", "(", "f", "i", "l", "e", " ", "a", "t", "t", "a",
  "c", "h", "e", "d", ")", "\n">>

\* "[01/02/2023, 09:17] Bob: c.mp3 (file attached)" : an attached audio file that is no voice note
LineMp3 ==
  <<"[", "0", "1", "/", "0", "2", "/", "2", "0", "2", "3", ",", " ", "0",
  "9", ":", "1", "7", "]", " ", "B", "o", "b", ":", " ", "c", ".", "m",
  "p", "3", " ", "(", "f", "i", "l", "e", " ", "a", "t", "t", "a", "c",
  "h", "e", "d", ")", "\n">>

\* lines for the accumulator, the counters and the timestamps
LinePool ==
  {LineAlice, LineTwo, LineBob, LineEarly, LineBadTs, LineSystem, LineEmpty,
   LineLegacy, LineDayFirst}

\* lines for the inference of the message type
MediaPool ==
  {LineOmitted, LineOpus, LineOpusTxt, LineNoName, LineJpg, LineTwo, LineBob}

\* lines for the order of the tests of the message type
OrderPool ==
  {LineBoth, LineOmitted, LineOpus, LineOpusTxt, LineJpg, LineBob, LineTwo}

(***************************************************************************)
(* Header lines in both layouts, built from a timestamp text, a sender and *)
(* a body.                                                                 *)
(***************************************************************************)
\* "01/02/2023, 09:15" : 24-hour clock, 4-digit year
StampPlain ==
  <<"0", "1", "/", "0", "2", "/", "2", "0", "2", "3", ",", " ", "0", "9",
  ":", "1", "5">>

\* "1/2/23, 9:15:07 pm" : seconds, 2-digit year, lower-case meridiem marker
StampShort ==
  <<"1", "/", "2", "/", "2", "3", ",", " ", "9", ":", "1", "5", ":", "0",
  "7", " ", "p", "m">>

\* "13/02/2023, 09:15" : first field is a day
StampDay ==
  <<"1", "3", "/", "0", "2", "/", "2", "0", "2", "3", ",", " ", "0", "9",
  ":", "1", "5">>

\* "10/11/2023, 9:15 PM" with U+202F before the meridiem marker
StampNarrow ==
  <<"1", "0", "/", "1", "1", "/", "2", "0", "2", "3", ",", " ", "9", ":",
  "1", "5", NNBSP, "P", "M">>

\* "Bob"
SenderBob ==
  <<"B", "o", "b">>

\* "Al B" : a sender of two words
SenderAlB ==
  <<"A", "l", " ", "B">>

\* "hi"
BodyHi ==
  <<"h", "i">>

\* "x: y" : a body with a colon
BodyColon ==
  <<"x", ":", " ", "y">>

\* "a.opus (file attached)"
BodyOpus ==
  <<"a", ".", "o", "p", "u", "s", " ", "(", "f", "i", "l", "e", " ", "a",
  "t", "t", "a", "c", "h", "e", "d", ")">>

\* the timestamp texts, senders and bodies of the header lines
HeaderParts ==
  {[t |-> StampPlain, s |-> SenderBob, b |-> BodyHi],
   [t |-> StampShort, s |-> SenderBob, b |-> BodyColon],
   [t |-> StampPlain, s |-> SenderAlB, b |-> <<>>],
   [t |-> StampDay, s |-> SenderBob, b |-> BodyOpus],
   [t |-> StampNarrow, s |-> SenderAlB, b |-> BodyHi]}

\* "[t] s: b" : the bracketed layout
BracketedLine(p) == <<"[">> \o p.t \o <<"]", " ">> \o p.s \o <<":", " ">> \o p.b \o <<NL>>

\* "t - s: b" : the legacy layout
LegacyLine(p) == p.t \o <<" ", "-", " ">> \o p.s \o <<":", " ">> \o p.b \o <<NL>>

\* the header lines in both layouts and a line with no header shape
LayoutPool ==
  {BracketedLine(p) : p \in HeaderParts} \cup {LegacyLine(p) : p \in HeaderParts} \cup {LineTwo}

\* the files of at most MaxLayoutLines lines in the two layouts
LayoutFiles == UNION {[1..n -> LayoutPool] : n \in 0..MaxLayoutLines}

\* lines for the marks before a header
PrefixPool == {LineBom, LineLrm, LineBob, LineTwo}

\* lines for the blocks of lines of the records
BlockPool == {LineAlice, LineTwo, LineBob, LineEmpty, LineLegacy}

\* "[01/02/2023, 09:15] Bob:" : a bracketed header with an empty body
LineNoBody ==
  <<"[", "0", "1", "/", "0", "2", "/", "2", "0", "2", "3", ",", " ", "0",
  "9", ":", "1", "5", "]", " ", "B", "o", "b", ":", "\n">>

\* "[01/02/2023, 9:15 pm] Bob: hi" : a lower-case meridiem marker
LineLowerPm ==
  <<"[", "0", "1", "/", "0", "2", "/", "2", "0", "2", "3", ",", " ", "9",
  ":", "1", "5", " ", "p", "m", "]", " ", "B", "o", "b", ":", " ", "h",
  "i", "\n">>

\* "[01/02/2023, 09:15] Messages are encrypted" : a notice without a sender
LineNotice ==
  <<"[", "0", "1", "/", "0", "2", "/", "2", "0", "2", "3", ",", " ", "0",
  "9", ":", "1", "5", "]", " ", "M", "e", "s", "s", "a", "g", "e", "s",
  " ", "a", "r", "e", " ", "e", "n", "c", "r", "y", "p", "t", "e", "d",
  "\n">>

\* lines for the system-notice expression
NoticePool == {LineBob, LineNoBody, LineLowerPm, LineNotice, LineTwo}

\* the files of at most MaxLines lines over a pool
Files(pool) == UNION {[1..n -> pool] : n \in 0..MaxLines}

(***************************************************************************)
(* State of one call of parse_chat_file, and of the transcription of the   *)
(* voice notes and its merge into the returned frame (routes.py, lines     *)
(* 64-71), and of one request to upload_chat_and_analyze.                  *)
(***************************************************************************)
VARIABLES
  lines,                  \* f.readlines()
  pc,                     \* "loop", "convert", "sort", "done"
  i,                      \* the index of the next line of the for loop
  chat_data,
  current_message_lines,
  matched_count,
  unmatched_count,
  unmatched_samples,
  df,                     \* the DataFrame: rows with their index label
  null_timestamps,        \* df['timestamp'].isna().sum()
  fallback_used,          \* the except branch with format='mixed' was run
  indexer,                \* the index labels in the order sort_values chose
  result,                 \* the returned DataFrame
  media_files,            \* the names find_media_files lists, in its order
  WHISPER_AVAILABLE,      \* import whisper succeeded
  transcriptions,         \* what transcribe_audio_files returns
  merged,                 \* what merge_transcriptions_into_chat returns
  upload,                 \* file: its name and what the archive holds
  enable_transcription,   \* the form field of the request
  handler,                \* the position of upload_chat_and_analyze
  temp_dir,               \* the extraction directory: "none", "created", "cleaned"
  response                \* what the client is answered

vars == <<lines, pc, i, chat_data, current_message_lines, matched_count,
          unmatched_count, unmatched_samples, df, null_timestamps,
          fallback_used, indexer, result, media_files, WHISPER_AVAILABLE,
          transcriptions, merged, upload, enable_transcription, handler,
          temp_dir, response>>

loopVars == <<chat_data, current_message_lines, matched_count, unmatched_count,
              unmatched_samples>>

pandasVars == <<df, null_timestamps, fallback_used, indexer, result>>

audioVars == <<media_files, WHISPER_AVAILABLE, transcriptions, merged>>

uploadVars == <<upload, enable_transcription, handler, temp_dir, response>>

\* the loop variables as one record
LoopState ==
  [chat_data |-> chat_data, current_message_lines |-> current_message_lines,
   matched_count |-> matched_count, unmatched_count |-> unmatched_count,
   unmatched_samples |-> unmatched_samples]

\* the locals of parse_chat_file before the first line is read
BeforeFirstLine ==
  /\ i = 1
  /\ chat_data = <<>>
  /\ current_message_lines = <<>>
  /\ matched_count = 0
  /\ unmatched_count = 0
  /\ unmatched_samples = <<>>
  /\ df = <<>>
  /\ null_timestamps = 0
  /\ fallback_used = FALSE
  /\ indexer = <<>>
  /\ result = <<>>

\* the state of the parser before the first line of one of the files is read
ParseStart(files) ==
  /\ lines \in files
  /\ pc = "loop"
  /\ BeforeFirstLine

\* no transcription was asked for
NoAudio ==
  /\ media_files = <<>>
  /\ WHISPER_AVAILABLE = FALSE
  /\ transcriptions = <<>>
  /\ merged = <<>>

\* no response was given yet
NoResponse == [status_code |-> 0, detail |-> "", cause |-> ""]

\* parse_chat_file is called on a file directly, not by the endpoint
NoUpload ==
  /\ upload = [zip_name |-> FALSE, archive |-> "none"]
  /\ enable_transcription = FALSE
  /\ handler = "none"
  /\ temp_dir = "none"
  /\ response = NoResponse

InitFrom(files) == ParseStart(files) /\ NoAudio /\ NoUpload

InitWith(pool) == InitFrom(Files(pool))

Init == InitWith(LinePool)

\* the loop variables take the values of st
SetLoopState(st) ==
  /\ chat_data' = st.chat_data
  /\ current_message_lines' = st.current_message_lines
  /\ matched_count' = st.matched_count
  /\ unmatched_count' = st.unmatched_count
  /\ unmatched_samples' = st.unmatched_samples

\* one iteration of "for line in lines"
ProcessLine ==
  /\ pc = "loop"
  /\ i <= Len(lines)
  /\ SetLoopState(Step(LoopState, lines[i]))
  /\ i' = i + 1
  /\ UNCHANGED <<lines, pc, pandasVars, audioVars, uploadVars>>

\* pd.DataFrame(chat_data): the rows, labelled 1..n in list order
DataFrame(records) ==
  [k \in 1..Len(records) |->
     [index |-> k, timestamp_str |-> records[k].timestamp_str, timestamp |-> NaT,
      sender |-> records[k].sender, message |-> records[k].message,
      message_type |-> records[k].message_type,
      media_filename |-> records[k].media_filename]]

\* a variant that never takes the early return
NoMessagesParsedNever(records) == FALSE

\* if not chat_data: return pd.DataFrame()
NoMessagesParsed(records) == records = <<>>

\* after the loop: the last pending lines are added, an empty list is returned as
\* an empty DataFrame, otherwise the DataFrame is built
FinishLoop ==
  /\ pc = "loop"
  /\ i > Len(lines)
  /\ chat_data' = FlushPending(chat_data, current_message_lines)
  /\ IF NoMessagesParsed(chat_data')
     THEN /\ pc' = "done"
          /\ df' = <<>>
     ELSE /\ pc' = "convert"
          /\ df' = DataFrame(chat_data')
  /\ UNCHANGED <<lines, i, current_message_lines, matched_count, unmatched_count,
                 unmatched_samples, null_timestamps, fallback_used, indexer, result,
                 audioVars, uploadVars>>

\* whether pd.to_datetime(column, errors='coerce') raises: with errors='coerce'
\* an element that cannot be parsed becomes NaT instead
ToDatetimeRaises(column) == FALSE

\* pd.to_datetime(column, errors='coerce', format='mixed'): every element on its own
ToDatetimeMixed(column) == [k \in 1..Len(column) |-> DateutilParse(column[k])]

\* a variant that keeps the rows without a timestamp
DropNaKeepsAll(frame) == frame

\* df.dropna(subset=['timestamp'])
RECURSIVE DropNa(_)
DropNa(frame) ==
  IF frame = <<>> THEN <<>>
  ELSE (IF Head(frame).timestamp # NaT THEN <<Head(frame)>> ELSE <<>>) \o DropNa(Tail(frame))

\* df['timestamp_str']
TimestampColumn(frame) == [k \in 1..Len(frame) |-> frame[k].timestamp_str]

\* try: to_datetime(errors='coerce') except: to_datetime(errors='coerce', format='mixed')
ParseTimestamps(column) ==
  IF ToDatetimeRaises(column) THEN ToDatetimeMixed(column) ELSE ToDatetime(column)

\* df['timestamp'] = stamps
WithTimestamps(frame, stamps) ==
  [k \in 1..Len(frame) |-> [frame[k] EXCEPT !.timestamp = stamps[k]]]

\* the count of the rows without a timestamp, then dropna
CountAndDrop(frame) ==
  /\ null_timestamps' = Cardinality({k \in 1..Len(frame) : frame[k].timestamp = NaT})
  /\ df' = DropNa(frame)

\* the try / except around pd.to_datetime, the count of NaT and dropna
ConvertTimestamps ==
  /\ pc = "convert"
  /\ fallback_used' = ToDatetimeRaises(TimestampColumn(df))
  /\ CountAndDrop(WithTimestamps(df, ParseTimestamps(TimestampColumn(df))))
  /\ pc' = "sort"
  /\ UNCHANGED <<lines, i, loopVars, indexer, result, audioVars, uploadVars>>

\* a variant that leaves the rows in the order of the frame
SortValuesUnsorted(frame) == {[k \in 1..Len(frame) |-> k]}

\* the orders of the rows that sort_values(by="timestamp") may produce: its
\* default kind is quicksort, which puts the rows in non-decreasing order of
\* timestamp and promises nothing about the order of rows with equal timestamps
SortValues(frame) ==
  {p \in [1..Len(frame) -> 1..Len(frame)] :
     /\ \A a, b \in 1..Len(frame) : a # b => p[a] # p[b]
     /\ \A a \in 1..(Len(frame) - 1) :
          ~TupleLess(frame[p[a + 1]].timestamp, frame[p[a]].timestamp)}

\* the columns of the returned frame
Returned(r) ==
  [timestamp |-> r.timestamp, sender |-> r.sender, message |-> r.message,
   message_type |-> r.message_type, media_filename |-> r.media_filename]

\* sort_values, reset_index(drop=True), drop timestamp_str, select the columns
SortAndReturn ==
  /\ pc = "sort"
  /\ \E p \in SortValues(df) :
       /\ indexer' = [k \in 1..Len(df) |-> df[p[k]].index]
       /\ result' = [k \in 1..Len(df) |-> Returned(df[p[k]])]
  /\ pc' = "done"
  /\ UNCHANGED <<lines, i, loopVars, df, null_timestamps, fallback_used, audioVars, uploadVars>>

Next == ProcessLine \/ FinishLoop \/ ConvertTimestamps \/ SortAndReturn

Spec == Init /\ [][Next]_vars

InitMedia == InitWith(MediaPool)

SpecMedia == InitMedia /\ [][Next]_vars

InitBlocks == InitWith(BlockPool)

SpecBlocks == InitBlocks /\ [][Next]_vars

InitNotices == InitWith(NoticePool)

SpecNotices == InitNotices /\ [][Next]_vars

InitOrder == InitWith(OrderPool)

SpecOrder == InitOrder /\ [][Next]_vars

\* a byte-order mark is at the start of the file only
PrefixFiles == {f \in Files(PrefixPool) : \A k \in 2..Len(f) : f[k] # LineBom}

InitPrefix == InitFrom(PrefixFiles)

SpecPrefix == InitPrefix /\ [][Next]_vars

\* the runs of at most MaxOrphanLines lines without a header shape: the first
\* MaxVariedLines of them are empty or not, the lines after them are not
OrphanRuns ==
  UNION {{[k \in 1..n |-> IF k <= Len(head) THEN head[k] ELSE LineTwo] :
            head \in [1..(IF n < MaxVariedLines THEN n ELSE MaxVariedLines) -> {LineTwo, LineEmpty}]} :
         n \in 0..MaxOrphanLines}

\* the files that start with such a run, with nothing, a header or a header and
\* one more line after it
OrphanFiles ==
  {orphans \o rest : orphans \in OrphanRuns, rest \in {<<>>, <<LineBob>>, <<LineBob, LineTwo>>}}

InitOrphans == InitFrom(OrphanFiles)

SpecOrphans == InitOrphans /\ [][Next]_vars

\* the lines of at most MaxMarkChars characters, each a mark of the substitution
\* table, a space or a letter
MarkLines ==
  UNION {{text \o <<NL>> : text \in [1..n -> {NNBSP, LRM, LS, " ", "a"}]} : n \in 0..MaxMarkChars}

\* the files that hold one such line, alone or after a header
MarkFiles == {<<line>> : line \in MarkLines} \cup {<<LineBob, line>> : line \in MarkLines}

InitMarks == InitFrom(MarkFiles)

SpecMarks == InitMarks /\ [][Next]_vars

InitLayout == InitFrom(LayoutFiles)

SpecLayout == InitLayout /\ [][Next]_vars

(***************************************************************************)
(* media/audio_transcription.py: transcribe_audio_files and                *)
(* merge_transcriptions_into_chat, called on the returned frame when the   *)
(* transcription is enabled.                                               *)
(***************************************************************************)
\* "a.opus"
FileA ==
  <<"a", ".", "o", "p", "u", "s">>

\* "b.opus"
FileB ==
  <<"b", ".", "o", "p", "u", "s">>

\* "c.mp3"
FileMp3 ==
  <<"c", ".", "m", "p", "3">>

\* the listings of at most MaxMediaFiles files of the archive, no name twice
ArchiveListings ==
  {listing \in UNION {[1..n -> {FileA, FileB, FileMp3}] : n \in 0..MaxMediaFiles} :
     \A a, b \in 1..Len(listing) : a # b => listing[a] # listing[b]}

\* lines for the merge of the transcriptions
AudioPool == {LineOpus, LineOpusB, LineMp3, LineBob}

\* name.endswith(('.opus', '.ogg', '.mp3', '.m4a'))
IsAudioName(name) ==
  \/ EndsWith(name, <<".", "o", "p", "u", "s">>)
  \/ EndsWith(name, <<".", "o", "g", "g">>)
  \/ EndsWith(name, <<".", "m", "p", "3">>)
  \/ EndsWith(name, <<".", "m", "4", "a">>)

\* audio_files = [... for path, name in media_files if name.endswith(...)]
AudioFiles(listing) == SelectSeq(listing, IsAudioName)

\* pd.Timestamp.now()
Now == <<2026, 1, 1, 0, 0, 0>>

\* the message of the record returned when whisper is not installed
WHISPER_MISSING_MSG ==
  <<"V", "o", "i", "c", "e", " ", "n", "o", "t", "e", " ", "t", "r", "a",
  "n", "s", "c", "r", "i", "p", "t", "i", "o", "n", " ", "w", "a", "s",
  " ", "e", "n", "a", "b", "l", "e", "d", ",", " ", "b", "u", "t", " ",
  "t", "h", "e", " ", "'", "o", "p", "e", "n", "a", "i", "-", "w", "h",
  "i", "s", "p", "e", "r", "'", " ", "p", "a", "c", "k", "a", "g", "e",
  " ", "i", "s", " ", "n", "o", "t", " ", "i", "n", "s", "t", "a", "l",
  "l", "e", "d", ".", " ", "P", "l", "e", "a", "s", "e", " ", "i", "n",
  "s", "t", "a", "l", "l", " ", "i", "t", " ", "t", "o", " ", "u", "s",
  "e", " ", "t", "h", "i", "s", " ", "f", "e", "a", "t", "u", "r", "e",
  ".">>

\* the record returned when whisper is not installed
MockTranscription ==
  [timestamp |-> Now, sender |-> <<"S", "y", "s", "t", "e", "m">>,
   message |-> WHISPER_MISSING_MSG, message_type |-> "system", media_filename |-> None]

\* "[Transcribed Voice Note]: "
TRANSCRIBED_PREFIX ==
  <<"[", "T", "r", "a", "n", "s", "c", "r", "i", "b", "e", "d", " ", "V",
  "o", "i", "c", "e", " ", "N", "o", "t", "e", "]", ":", " ">>

\* "[Error transcribing voice note: "
ERROR_PREFIX ==
  <<"[", "E", "r", "r", "o", "r", " ", "t", "r", "a", "n", "s", "c", "r",
  "i", "b", "i", "n", "g", " ", "v", "o", "i", "c", "e", " ", "n", "o",
  "t", "e", ":", " ">>

\* result["text"] of model.transcribe
TranscribedText ==
  <<"o", "k">>

\* the positions of df[df["media_filename"] == audio_filename]
ReferenceRows(frame, audio_filename) ==
  {a \in 1..Len(frame) : frame[a].media_filename = Some(audio_filename)}

\* the record appended for an audio file, reference the first row that names it
\* and failed whether model.transcribe raised
TranscriptionOf(reference, audio_filename, failed) ==
  IF failed
  THEN [timestamp |-> reference.timestamp, sender |-> reference.sender,
        message |-> ERROR_PREFIX \o audio_filename \o <<"]">>,
        message_type |-> "system", media_filename |-> Some(audio_filename)]
  ELSE [timestamp |-> reference.timestamp, sender |-> reference.sender,
        message |-> TRANSCRIBED_PREFIX \o TranscribedText,
        message_type |-> "text", media_filename |-> None]

\* the loop over audio_files; failing holds the names for which model.transcribe raises
RECURSIVE TranscribeAll(_, _, _)
TranscribeAll(audio_files, frame, failing) ==
  IF audio_files = <<>> THEN <<>>
  ELSE (IF ReferenceRows(frame, Head(audio_files)) = {} THEN <<>>
        ELSE <<TranscriptionOf(frame[First(ReferenceRows(frame, Head(audio_files)))],
                               Head(audio_files), Head(audio_files) \in failing)>>)
       \o TranscribeAll(Tail(audio_files), frame, failing)

\* transcriptions = transcribe_audio_files(media_files, df)
TranscribeAudioFiles ==
  /\ pc = "done"
  /\ result # <<>>
  /\ \E failing \in SUBSET {media_files[k] : k \in 1..Len(media_files)} :
       transcriptions' = IF ~WHISPER_AVAILABLE THEN <<MockTranscription>>
                         ELSE TranscribeAll(AudioFiles(media_files), result, failing)
  /\ pc' = "transcribed"
  /\ UNCHANGED <<lines, i, loopVars, pandasVars, media_files, WHISPER_AVAILABLE, merged,
                 uploadVars>>

\* a row that is not a voice note
NotVoiceNote(row) == row.message_type # "voice_note"

\* df[df["message_type"] != "voice_note"]
WithoutVoiceNotes(frame) == SelectSeq(frame, NotVoiceNote)

\* sort_values(by="timestamp").reset_index(drop=True) of the combined frame
SortedFrames(combined) ==
  {[k \in 1..Len(combined) |-> combined[p[k]]] : p \in SortValues(combined)}

\* df = merge_transcriptions_into_chat(df, transcriptions)
MergeTranscriptions ==
  /\ pc = "transcribed"
  /\ IF transcriptions = <<>>
     THEN merged' = result
     ELSE merged' \in SortedFrames(WithoutVoiceNotes(result) \o transcriptions)
  /\ pc' = "merged"
  /\ UNCHANGED <<lines, i, loopVars, pandasVars, media_files, WHISPER_AVAILABLE,
                 transcriptions, uploadVars>>

InitAudio ==
  /\ ParseStart(Files(AudioPool))
  /\ media_files \in ArchiveListings
  /\ WHISPER_AVAILABLE \in BOOLEAN
  /\ transcriptions = <<>>
  /\ merged = <<>>
  /\ NoUpload

NextAudio == Next \/ TranscribeAudioFiles \/ MergeTranscriptions

SpecAudio == InitAudio /\ [][NextAudio]_vars

(***************************************************************************)
(* api/routes.py: one request to upload_chat_and_analyze.  The request is  *)
(* followed from call to call; the analytics and the insight generation    *)
(* are taken to return, and what they compute is not modelled.             *)
(***************************************************************************)
\* lines of the chat file of an uploaded archive
UploadPool == {LineBob, LineTwo, LineOpus, LineBadTs}

\* the uploaded bytes: no ZIP archive, an archive without a .txt file, an
\* archive with a chat file
Archives == {"corrupt", "no_chat", "chat"}

INVALID_FILE_TYPE == "Invalid file type. Please upload a ZIP file."

COULD_NOT_PARSE == "Could not parse chat file or file is empty."

NO_CHAT_FILE == "Could not find any '.txt' chat file in the provided ZIP file."

UNEXPECTED_ERROR == "An unexpected error occurred: "

\* HTTPException(status_code=..., detail=...); cause is the exception whose
\* text str(e) ends the detail
HTTPException(status_code, detail, cause) ==
  [class |-> "HTTPException", status_code |-> status_code, detail |-> detail,
   cause |-> cause]

\* raise FileNotFoundError(...) in find_chat_file
FileNotFoundError ==
  [class |-> "FileNotFoundError", status_code |-> 0, detail |-> NO_CHAT_FILE,
   cause |-> ""]

\* zipfile.ZipFile(zip_path, 'r') on bytes that are no archive
BadZipFile ==
  [class |-> "BadZipFile", status_code |-> 0, detail |-> "", cause |-> ""]

\* the except clauses of the try block: the exception that leaves the endpoint
\* when e is raised inside the block
Except(e) ==
  IF e.class = "FileNotFoundError" THEN HTTPException(404, e.detail, "")
  ELSE HTTPException(500, UNEXPECTED_ERROR, e.class)

\* the answer given for an HTTPException that leaves the endpoint
Answer(e) == [status_code |-> e.status_code, detail |-> e.detail, cause |-> e.cause]

\* return AnalysisResult(...)
AnalysisResult == [status_code |-> 200, detail |-> "", cause |-> ""]

parserVars == <<lines, pc, i, loopVars, pandasVars>>

\* if not file.filename.endswith(".zip"): raise HTTPException(400), before the try
RejectFileType ==
  /\ handler = "start"
  /\ ~upload.zip_name
  /\ response' = Answer(HTTPException(400, INVALID_FILE_TYPE, ""))
  /\ handler' = "responded"
  /\ UNCHANGED <<parserVars, audioVars, upload, enable_transcription, temp_dir>>

\* temp_dir = extract_zip(zip_content): the directory is made, then the
\* archive is opened
ExtractZip ==
  /\ handler = "start"
  /\ upload.zip_name
  /\ temp_dir' = "created"
  /\ IF upload.archive = "corrupt"
     THEN /\ response' = Answer(Except(BadZipFile))
          /\ handler' = "responded"
     ELSE /\ response' = response
          /\ handler' = "extracted"
  /\ UNCHANGED <<parserVars, audioVars, upload, enable_transcription>>

\* chat_file_path = find_chat_file(temp_dir.name), then the call of
\* parse_chat_file
FindChatFile ==
  /\ handler = "extracted"
  /\ IF upload.archive = "chat"
     THEN /\ handler' = "parsing"
          /\ pc' = "loop"
          /\ response' = response
     ELSE /\ handler' = "responded"
          /\ pc' = pc
          /\ response' = Answer(Except(FileNotFoundError))
  /\ UNCHANGED <<lines, i, loopVars, pandasVars, audioVars, upload,
                 enable_transcription, temp_dir>>

\* df = parse_chat_file(chat_file_path)
ParseChatFile == handler = "parsing" /\ Next

\* if df.empty: raise HTTPException(400), inside the try
CheckParsed ==
  /\ handler = "parsing"
  /\ pc = "done"
  /\ IF result = <<>>
     THEN /\ response' = Answer(Except(HTTPException(400, COULD_NOT_PARSE, "")))
          /\ handler' = "responded"
     ELSE /\ response' = response
          /\ handler' = "parsed"
  /\ UNCHANGED <<parserVars, audioVars, upload, enable_transcription, temp_dir>>

\* if enable_transcription: transcribe_audio_files, merge_transcriptions_into_chat
Transcribe ==
  /\ handler = "parsed"
  /\ enable_transcription
  /\ TranscribeAudioFiles \/ MergeTranscriptions

\* the three calculate_..._stats calls and get_insights
CalculateAnalytics ==
  /\ handler = "parsed"
  /\ enable_transcription => pc = "merged"
  /\ handler' = "analysed"
  /\ UNCHANGED <<parserVars, audioVars, upload, enable_transcription, temp_dir, response>>

\* temp_dir.cleanup() ; return AnalysisResult(...)
CleanupAndReturn ==
  /\ handler = "analysed"
  /\ temp_dir' = "cleaned"
  /\ response' = AnalysisResult
  /\ handler' = "responded"
  /\ UNCHANGED <<parserVars, audioVars, upload, enable_transcription>>

\* the upload has a chat file to parse
HasChatFile == upload.zip_name /\ upload.archive = "chat"

InitUpload ==
  /\ upload \in [zip_name : BOOLEAN, archive : Archives]
  /\ enable_transcription \in BOOLEAN
  /\ lines \in IF HasChatFile THEN Files(UploadPool) ELSE {<<>>}
  /\ pc = "idle"
  /\ BeforeFirstLine
  /\ media_files \in IF HasChatFile /\ enable_transcription THEN ArchiveListings ELSE {<<>>}
  /\ WHISPER_AVAILABLE \in IF HasChatFile /\ enable_transcription THEN BOOLEAN ELSE {FALSE}
  /\ transcriptions = <<>>
  /\ merged = <<>>
  /\ handler = "start"
  /\ temp_dir = "none"
  /\ response = NoResponse

NextUpload ==
  \/ RejectFileType
  \/ ExtractZip
  \/ FindChatFile
  \/ ParseChatFile
  \/ CheckParsed
  \/ Transcribe
  \/ CalculateAnalytics
  \/ CleanupAndReturn

SpecUpload == InitUpload /\ [][NextUpload]_vars


(***************************************************************************)
(* Vocabulary of the properties: what the input says, read independently   *)
(* of the accumulator.                                                     *)
(***************************************************************************)
\* line k is matched by one of the header grammars or the system-notice grammar
OpensRecord(k) ==
  \/ HeaderMatch(NormalizeLine(lines[k])).ok
  \/ SYSTEM_MESSAGE_REGEX(NormalizeLine(lines[k])).ok

\* the positions of the lines that open a record, among the first n lines
Openers(n) == {k \in 1..n : OpensRecord(k)}

\* the position of the line that opened record r
OpenerOf(r) == CHOOSE k \in Openers(Len(lines)) : Cardinality(Openers(k)) = r

\* the stripped body fragment of the header line of record r
BodyOf(r) == Strip(HeaderMatch(NormalizeLine(lines[OpenerOf(r)])).g3)

\* the positions of the lines between the header of record r and the next header
FollowersOf(r) ==
  {k \in (OpenerOf(r) + 1)..Len(lines) : Cardinality(Openers(k)) = r}

\* the trimmed lines at an interval of positions, in order
TrimmedLines(from, to) ==
  [k \in 1..(to - from + 1) |-> Strip(NormalizeLine(lines[from + k - 1]))]

\* the pass is over and the last pending lines were added
PassOver == pc # "loop"

SystemName == <<"S", "y", "s", "t", "e", "m">>

(***************************************************************************)
(* C1. Multi-line continuation: after the pass, the message of a text      *)
(* record whose header is followed by non-empty lines is the header's body *)
(* fragment and the trimmed lines that follow it, all joined by single     *)
(* spaces; "line one" followed by "line two" gives "line one line two".    *)
(* The parser adds ' '.join(pending) to the message with no separator, so  *)
(* this is violated.                                                       *)
(***************************************************************************)
C1_ContinuationJoinedBySpace ==
  PassOver =>
    \A r \in 1..Len(chat_data) :
      LET n == Cardinality(FollowersOf(r))
          tail == TrimmedLines(OpenerOf(r) + 1, OpenerOf(r) + n)
      IN (/\ chat_data[r].message_type = "text"
          /\ n > 0
          /\ \A k \in 1..n : tail[k] # <<>>)
         => chat_data[r].message = Join(<<BodyOf(r)>> \o tail)

(***************************************************************************)
(* C2 as stated. Conservation: after the pass, matched_count +             *)
(* unmatched_count is the number of non-empty lines of the input.          *)
(***************************************************************************)
C2_CountersCoverNonEmptyLines ==
  PassOver =>
    matched_count + unmatched_count =
      Cardinality({k \in 1..Len(lines) : Strip(NormalizeLine(lines[k])) # <<>>})

(***************************************************************************)
(* C2 amended. At every point of the pass, matched_count + unmatched_count *)
(* is the number of lines read so far, empty ones included, that either    *)
(* open a record or come before the first record; a line that comes after  *)
(* a record was opened and opens none is counted by neither counter.       *)
(***************************************************************************)
C2_CountersCoverHeadersAndOrphans ==
  matched_count + unmatched_count =
    Cardinality({k \in 1..(i - 1) : OpensRecord(k) \/ Openers(k) = {}})

\* an orphan line, a header and a continuation line were all read
C2_Witness ==
  /\ PassOver
  /\ unmatched_count >= 1
  /\ matched_count >= 1
  /\ matched_count + unmatched_count < Len(lines)

(***************************************************************************)
(* C3. Stable order: in the returned frame, rows with equal timestamps     *)
(* keep the order of their header lines.  sort_values is called with its   *)
(* default kind, which is not a stable sort, so this is violated.  Rows     *)
(* that are equal in every column are left out: their order is not seen.   *)
(***************************************************************************)
C3_TiesKeepInputOrder ==
  pc = "done" =>
    \A a, b \in 1..Len(indexer) :
      (a < b /\ result[a].timestamp = result[b].timestamp /\ result[a] # result[b])
        => indexer[a] < indexer[b]

(***************************************************************************)
(* C4. Order invariant: the returned frame is sorted non-decreasing by     *)
(* timestamp.                                                              *)
(***************************************************************************)
C4_ResultSorted ==
  pc = "done" =>
    \A a \in 1..(Len(result) - 1) :
      ~TupleLess(result[a + 1].timestamp, result[a].timestamp)

\* two rows were returned in the opposite order of their header lines
C4_Witness ==
  /\ pc = "done"
  /\ \E a \in 1..(Len(result) - 1) :
       /\ TupleLess(result[a].timestamp, result[a + 1].timestamp)
       /\ indexer[a] > indexer[a + 1]

(***************************************************************************)
(* C5. In the returned frame, sender is "System" exactly for the rows      *)
(* whose message_type is "system".  A header whose sender text is System   *)
(* is an ordinary text record, so this is violated.                        *)
(***************************************************************************)
C5_SystemSenderIffSystemType ==
  pc = "done" =>
    \A a \in 1..Len(result) :
      (result[a].sender = SystemName) <=> (result[a].message_type = "system")

(***************************************************************************)
(* C6. One record per header: at every point of the pass there are as      *)
(* many raw records as header matches (matched_count), and the lines read  *)
(* before the first header match add nothing to any record: the records    *)
(* and the pending lines are those of a pass that starts at the first      *)
(* header line.                                                            *)
(***************************************************************************)
\* the loop variables after a pass over the lines from position from to position to
RECURSIVE PassOverLines(_, _)
PassOverLines(from, to) ==
  IF to < from THEN LoopStart ELSE Step(PassOverLines(from, to - 1), lines[to])

C6_OneRecordPerHeader ==
  pc = "loop" =>
    /\ Len(chat_data) = matched_count
    /\ IF Openers(i - 1) = {}
       THEN chat_data = <<>> /\ current_message_lines = <<>>
       ELSE LET st == PassOverLines(First(Openers(i - 1)), i - 1)
            IN chat_data = st.chat_data /\ current_message_lines = st.current_message_lines

\* a non-empty line came before the first header, and a line came after it
C6_Witness ==
  /\ pc = "loop"
  /\ matched_count = 1
  /\ unmatched_samples # <<>> /\ unmatched_samples[1] # <<>>
  /\ current_message_lines # <<>>

(***************************************************************************)
(* C7. Unparsable-timestamp isolation: the rows whose timestamp text does  *)
(* not normalize are counted and left out, every other row is returned,    *)
(* so the returned frame has matched_count - null_timestamps rows.         *)
(***************************************************************************)
\* the timestamps pd.to_datetime gives to the raw records
StampsOfRecords == ToDatetime([k \in 1..Len(chat_data) |-> chat_data[k].timestamp_str])

C8_DroppedOnlyAfterFallback ==
  (pc \in {"sort", "done"} /\ null_timestamps > 0) => fallback_used

(***************************************************************************)
(* C9. A record is a voice_note only if its attached file name ends in     *)
(* .opus; any other attached file is media.  The parser tests whether the  *)
(* name contains .opus, so this is violated.                               *)
(***************************************************************************)
C9_VoiceNoteOnlyForOpusExtension ==
  \A r \in 1..Len(chat_data) :
    ~chat_data[r].media_filename.isNone =>
      chat_data[r].message_type =
        (IF EndsWith(chat_data[r].media_filename.val, DOT_OPUS) THEN "voice_note" ELSE "media")

(***************************************************************************)
(* C10. media_filename is set exactly for the records whose header body    *)
(* has the attached-file marker with a file name before it, and those      *)
(* records are media or voice_note.  A body that is the marker alone       *)
(* gives a record whose media_filename is the empty string, so this is     *)
(* violated.                                                               *)
(***************************************************************************)
C10_FilenameIffNamedAttachment ==
  \A r \in 1..Len(chat_data) :
    LET named == /\ Contains(BodyOf(r), FILE_ATTACHED)
                 /\ Strip(SplitFirst(BodyOf(r), FILE_ATTACHED)) # <<>>
    IN /\ (~chat_data[r].media_filename.isNone) <=> named
       /\ named => chat_data[r].message_type \in {"media", "voice_note"}

(***************************************************************************)
(* C11. Classification of a header body follows the ordered rule: a body   *)
(* with the media-omitted marker gives a media record with no file name,   *)
(* whether or not the attached-file marker is there too; else a body with  *)
(* the attached-file marker gives the trimmed text before the marker as    *)
(* media_filename, voice_note when that name is an .opus file name and     *)
(* media otherwise; else the record is text.  The message of a record that *)
(* was just opened is empty in the first two cases and the trimmed body in *)
(* the third.  The parser gives voice_note to every name that contains     *)
(* .opus, so this is violated.                                             *)
(***************************************************************************)
\* the classification the rule gives to a trimmed body
RuleOfBody(body) ==
  IF Contains(body, MEDIA_OMITTED_MSG)
  THEN [message |-> <<>>, message_type |-> "media", media_filename |-> None]
  ELSE IF Contains(body, FILE_ATTACHED)
  THEN [message |-> <<>>,
        message_type |-> IF EndsWith(Strip(SplitFirst(body, FILE_ATTACHED)), DOT_OPUS)
                         THEN "voice_note" ELSE "media",
        media_filename |-> Some(Strip(SplitFirst(body, FILE_ATTACHED)))]
  ELSE [message |-> body, message_type |-> "text", media_filename |-> None]

\* record r agrees with the classification c; its message is compared while
\* no line read after its header was added to it
AgreesWithRule(r, c) ==
  /\ chat_data[r].message_type = c.message_type
  /\ chat_data[r].media_filename = c.media_filename
  /\ (pc = "loop" /\ r = Len(chat_data)) => chat_data[r].message = c.message

C11_ClassificationOrder ==
  \A r \in 1..Len(chat_data) : AgreesWithRule(r, RuleOfBody(BodyOf(r)))

(***************************************************************************)
(* C12. Legacy-format equivalence: the legacy line "t - s: b" and the      *)
(* bracketed line "[t] s: b" are both header matches and open the same     *)
(* record.  Checked on whole files: the file in which every header line is *)
(* written in the other layout gives the same raw records, timestamp text, *)
(* sender, message, message_type and media_filename, and the same count of *)
(* matched lines, which is the number of header lines of the file.         *)
(***************************************************************************)
\* the line written in the other layout; a line that is no header is itself
OtherLayout(line) ==
  IF \E p \in HeaderParts : line = BracketedLine(p)
  THEN LegacyLine(CHOOSE p \in HeaderParts : line = BracketedLine(p))
  ELSE IF \E p \in HeaderParts : line = LegacyLine(p)
  THEN BracketedLine(CHOOSE p \in HeaderParts : line = LegacyLine(p))
  ELSE line

\* the loop variables after the first n lines of a file
RECURSIVE PassOverFile(_, _)
PassOverFile(file, n) ==
  IF n = 0 THEN LoopStart ELSE Step(PassOverFile(file, n - 1), file[n])

\* the raw records of a file, the last pending lines added
RecordsOfFile(st) == FlushPending(st.chat_data, st.current_message_lines)

\* the loop variables and the records agree with those of the state st
SameRecords(st) ==
  /\ chat_data = RecordsOfFile(st)
  /\ matched_count = st.matched_count
  /\ unmatched_count = st.unmatched_count

C12_LegacyEquivalence ==
  PassOver =>
    /\ SameRecords(PassOverFile([k \in 1..Len(lines) |-> OtherLayout(lines[k])], Len(lines)))
    /\ matched_count = Cardinality({k \in 1..Len(lines) : lines[k] # LineTwo})

\* a file with a legacy line whose meridiem marker is in lower case, and a
\* bracketed line, was read
C12_Witness ==
  /\ PassOver
  /\ Len(chat_data) = 2
  /\ \E k \in 1..Len(lines) : lines[k] = LegacyLine([t |-> StampShort, s |-> SenderBob, b |-> BodyColon])
  /\ \E k \in 1..Len(lines) : lines[k] = BracketedLine([t |-> StampDay, s |-> SenderBob, b |-> BodyOpus])

(***************************************************************************)
(* C13. Day-first normalization: the date D1/D2/Y of every record is read  *)
(* with D1 as the day and D2 as the month, so every record whose text is a *)
(* date in that reading is returned with that instant: "01/02/2023" is     *)
(* 1 February 2023, and a date whose first field exceeds 12 is returned.   *)
(* pd.to_datetime is called without dayfirst and without a format, reads   *)
(* "01/02/2023" month first and then drops "13/02/2023", so this is        *)
(* violated.                                                               *)
(***************************************************************************)
\* the instant of the fields f with the first field as the day
DayFirstOfFields(f) ==
  MakeInstant(IF f.ylen > 2 THEN f.f3 ELSE IF f.f3 >= 75 THEN 1900 + f.f3 ELSE 2000 + f.f3,
              f.f2, f.f1, Hour24(f.hour, f.mer), f.minute, f.second)

DayFirstInstant(t) == DayFirstOfFields(TsFields(t))

\* raw record k is returned with the instant s
ReturnedWith(k, s) ==
  \E a \in 1..Len(result) : indexer[a] = k /\ result[a].timestamp = s

C13_DayFirstNormalization ==
  pc = "done" =>
    \A k \in 1..Len(chat_data) :
      DayFirstInstant(chat_data[k].timestamp_str) # NaT
        => ReturnedWith(k, DayFirstInstant(chat_data[k].timestamp_str))

(***************************************************************************)
(* C14. Invisible-prefix tolerance: a header line that comes after a       *)
(* byte-order mark or a directional mark on the same line is a header      *)
(* match and opens a record: of the lines read so far, every one but the   *)
(* lines without a header shape was counted as matched and opened a        *)
(* record.  The file is read with encoding='utf-8', which keeps the        *)
(* byte-order mark, and the normalization does not remove it, so this is   *)
(* violated.                                                               *)
(***************************************************************************)
C14_HeaderAfterInvisiblePrefix ==
  pc = "loop" =>
    /\ matched_count = Cardinality({k \in 1..(i - 1) : lines[k] # LineTwo})
    /\ Len(chat_data) = matched_count

(***************************************************************************)
(* C15. Unmatched-sample cap: after any prefix of the input,               *)
(* unmatched_count is the number of lines read that were classified        *)
(* unmatched (the lines before the first header), the number of samples    *)
(* is min(unmatched_count, 3), and the samples are the first of those      *)
(* lines, trimmed, in input order; after 10 such lines the count is 10 and *)
(* there are 3 samples.                                                    *)
(***************************************************************************)
\* the positions, among the lines read, of the lines with no header at or before them
UnmatchedRead == {k \in 1..(i - 1) : Openers(k) = {}}

\* the position of the n-th of them
NthUnmatched(n) ==
  CHOOSE k \in UnmatchedRead : Cardinality({j \in UnmatchedRead : j <= k}) = n

C15_UnmatchedSampleCap ==
  pc = "loop" =>
    /\ unmatched_count = Cardinality(UnmatchedRead)
    /\ Len(unmatched_samples) = (IF unmatched_count < 3 THEN unmatched_count ELSE 3)
    /\ \A n \in 1..Len(unmatched_samples) :
         unmatched_samples[n] = Strip(NormalizeLine(lines[NthUnmatched(n)]))

\* ten lines without a header shape were read, the first three not all alike
C15_Witness ==
  /\ pc = "loop"
  /\ i = 11
  /\ unmatched_count = 10
  /\ Len(unmatched_samples) = 3
  /\ unmatched_samples[1] # unmatched_samples[2]

(***************************************************************************)
(* C16. NoMessagesParsed: when no line of the input is a header, an empty  *)
(* file and a file of lines without a header shape included, the call      *)
(* returns right after the loop, with an empty frame: no record was made,  *)
(* no frame is built and no timestamp is converted.                        *)
(***************************************************************************)
C16_NoMessagesParsed ==
  (PassOver /\ Openers(Len(lines)) = {}) =>
    /\ pc = "done"
    /\ chat_data = <<>>
    /\ df = <<>>
    /\ result = <<>>

\* a file of lines without a header shape, one of them not empty, was read
C16_Witness ==
  /\ pc = "done"
  /\ Len(lines) >= 2
  /\ unmatched_count = Len(lines)
  /\ \E k \in 1..Len(lines) : lines[k] = LineTwo
  /\ result = <<>>

(***************************************************************************)
(* C17. Diagnostics non-interference: the records are those of a run on    *)
(* the same lines that collects no diagnostics, one in which the counters  *)
(* stay 0 and no sample is kept, at every point of the pass and after it,  *)
(* and every returned row is one of those records.                         *)
(***************************************************************************)
\* the loop variables st with the diagnostics left out
WithoutDiagnostics(st) ==
  [st EXCEPT !.matched_count = 0, !.unmatched_count = 0, !.unmatched_samples = <<>>]

\* the loop variables after the first n lines of a run that collects no diagnostics
RECURSIVE QuietPass(_)
QuietPass(n) ==
  IF n = 0 THEN LoopStart ELSE WithoutDiagnostics(Step(QuietPass(n - 1), lines[n]))

\* the records and the pending lines are those of the state st of the quiet run
SameAccumulator(st) ==
  IF pc = "loop"
  THEN chat_data = st.chat_data /\ current_message_lines = st.current_message_lines
  ELSE /\ chat_data = RecordsOfFile(st)
       /\ \A a \in 1..Len(result) :
            /\ result[a].sender = RecordsOfFile(st)[indexer[a]].sender
            /\ result[a].message = RecordsOfFile(st)[indexer[a]].message
            /\ result[a].message_type = RecordsOfFile(st)[indexer[a]].message_type
            /\ result[a].media_filename = RecordsOfFile(st)[indexer[a]].media_filename

C17_DiagnosticsNonInterference == SameAccumulator(QuietPass(i - 1))

\* lines were counted unmatched and sampled, then a record with a line after
\* its header was returned
C17_Witness ==
  /\ pc = "done"
  /\ unmatched_samples # <<>>
  /\ Len(result) = 1
  /\ Len(lines) = unmatched_count + matched_count + 1

(***************************************************************************)
(* C18. Idempotence of the line normalization: for every line read, the    *)
(* substitution applied to the normalized line returns it unchanged.       *)
(***************************************************************************)
C18_NormalizeIdempotent ==
  \A k \in 1..(i - 1) :
    NormalizeLine(NormalizeLine(lines[k])) = NormalizeLine(lines[k])

\* a line with the three marks of the substitution table was read
C18_Witness ==
  /\ PassOver
  /\ \E k \in 1..Len(lines) :
       /\ {NNBSP, LRM, LS} \subseteq {lines[k][c] : c \in 1..Len(lines[k])}
       /\ NormalizeLine(lines[k]) = <<" ", " ", NL>>

(***************************************************************************)
(* C19. The merge replaces only matched records: a row of the frame is     *)
(* left out of the merged frame exactly when it is a voice_note row whose  *)
(* media_filename keyed one of the transcriptions; every other row, a      *)
(* voice_note row without a transcription included, is in the merged       *)
(* frame, which has as many rows as the frame.  Stated for the runs in     *)
(* which whisper is installed.  With any transcription to merge,           *)
(* merge_transcriptions_into_chat leaves out every voice_note row, so this *)
(* is violated.                                                            *)
(***************************************************************************)
\* the file names that keyed a transcription
KeyedNames ==
  {media_files[k] : k \in {j \in 1..Len(media_files) :
     IsAudioName(media_files[j]) /\ ReferenceRows(result, media_files[j]) # {}}}

\* row a of the frame is a voice_note row whose file name keyed a transcription
Transcribed(a) ==
  /\ result[a].message_type = "voice_note"
  /\ ~result[a].media_filename.isNone
  /\ result[a].media_filename.val \in KeyedNames

\* row a of the frame is a row of the merged frame
Kept(a) == \E b \in 1..Len(merged) : merged[b] = result[a]

C19_MergeReplacesOnlyMatched ==
  (pc = "merged" /\ WHISPER_AVAILABLE) =>
    /\ \A a \in 1..Len(result) : Kept(a) <=> ~Transcribed(a)
    /\ Len(merged) = Len(result)

(***************************************************************************)
(* C20. Record finality: a record that is no longer the last one never     *)
(* changes, and every record is made of its own block of lines alone, its  *)
(* header line and the lines read after it up to the next header line or   *)
(* the end of the input: it is the record that a pass over that block      *)
(* gives.                                                                  *)
(***************************************************************************)
\* the position of the last line read of the block of record r
BlockEnd(r) == IF r < Len(chat_data) THEN OpenerOf(r + 1) - 1 ELSE i - 1

\* the record of a block: st is the state of a pass over the block alone, and
\* the lines after the header were added when the block is closed
RecordOfBlock(st, closed) ==
  IF closed THEN RecordsOfFile(st)[1] ELSE st.chat_data[1]

\* every record is the record of its block
RecordsAreBlocks ==
  \A r \in 1..Len(chat_data) :
    chat_data[r] = RecordOfBlock(PassOverLines(OpenerOf(r), BlockEnd(r)),
                                 r < Len(chat_data) \/ PassOver)

\* a step leaves every record but the last as it is
EarlierRecordsKept ==
  \A r \in 1..(Len(chat_data) - 1) : chat_data'[r] = chat_data[r]

C20_RecordFinality == []RecordsAreBlocks /\ [][EarlierRecordsKept]_vars

\* two headers were read, then a line that was added to the second record
C20_Witness ==
  /\ PassOver
  /\ Len(lines) = 3
  /\ Openers(3) = {1, 2}
  /\ Strip(NormalizeLine(lines[3])) # <<>>
  /\ chat_data[1] = HeaderRecord(HeaderMatch(NormalizeLine(lines[1])))
  /\ chat_data[2] # HeaderRecord(HeaderMatch(NormalizeLine(lines[2])))

(***************************************************************************)
(* C21. Classifier priority: for every line read, the system-notice        *)
(* grammar is consulted only when the bracketed and the legacy header      *)
(* grammars both failed; the record made of a match of the system-notice   *)
(* grammar has sender "System", type system and no media_filename,         *)
(* whatever the captured sender text; and a line that matches a header     *)
(* grammar opens a record that is not tagged system.                       *)
(***************************************************************************)
\* the record made of a system-notice match m has the reserved sender
ForcedSystemRecord(m) ==
  m.ok => /\ SystemRecord(m).sender = SystemName
          /\ SystemRecord(m).message_type = "system"
          /\ SystemRecord(m).media_filename = None

\* the priority of the grammars on the branch b taken for a line
PriorityOnBranch(b) ==
  /\ b.system_match.ok => ~b.match.ok
  /\ b.match.ok => b.outcome = "header" /\ HeaderRecord(b.match).message_type # "system"
  /\ b.outcome = "system" => b.system_match.ok

C21_ClassifierPriority ==
  /\ \A k \in 1..(i - 1) :
       /\ PriorityOnBranch(BranchOfLine(LoopStart, NormalizeLine(lines[k])))
       /\ ForcedSystemRecord(SYSTEM_MESSAGE_REGEX(NormalizeLine(lines[k])))
  /\ \A r \in 1..Len(chat_data) : chat_data[r].message_type # "system"

\* a line that both the bracketed and the system-notice grammar match, with a
\* sender other than System, was read and opened a text record
C21_Witness ==
  /\ i > 1
  /\ WHATSAPP_CHAT_REGEX(NormalizeLine(lines[1])).ok
  /\ SYSTEM_MESSAGE_REGEX(NormalizeLine(lines[1])).ok
  /\ chat_data # <<>>
  /\ chat_data[1].message_type = "text"
  /\ chat_data[1].sender # SystemName

(***************************************************************************)
(* C22. Cleared media bodies stay cleared: once the pass is over, every    *)
(* record of type media or voice_note has an empty message, also when      *)
(* lines that open no record follow its header line.                       *)
(***************************************************************************)
C22_ClearedMediaBodiesStayCleared ==
  PassOver =>
    \A r \in 1..Len(chat_data) :
      chat_data[r].message_type \in {"media", "voice_note"}
        => chat_data[r].message = <<>>

(***************************************************************************)
(* C25. No record of type system: every line read that the system-notice   *)
(* grammar matches is matched by the bracketed header grammar as well, so  *)
(* no line read takes the system-notice branch, and neither the records    *)
(* collected nor the returned frame hold a record of type system.          *)
(***************************************************************************)
\* the line takes the header branch whenever the system-notice grammar matches it
NoticeIsHeader(normalized_line) ==
  /\ SYSTEM_MESSAGE_REGEX(normalized_line).ok => WHATSAPP_CHAT_REGEX(normalized_line).ok
  /\ BranchOfLine(LoopStart, normalized_line).outcome # "system"

AfterFirstHeader == matched_count > 0

\* the step reads a line that opens no record
ReadsPlainLine == pc = "loop" /\ i' = i + 1 /\ ~OpensRecord(i)

UnmatchedFrozen ==
  AfterFirstHeader =>
    /\ unmatched_count' = unmatched_count
    /\ unmatched_samples' = unmatched_samples
    /\ ReadsPlainLine =>
         current_message_lines' =
           Append(current_message_lines, Strip(NormalizeLine(lines[i])))

C26_UnmatchedOnlyBeforeFirstHeader == [][UnmatchedFrozen]_vars

\* a plain line was counted unmatched, then a header was matched, then an empty
\* line was read and kept as a pending line
C26_Witness ==
  /\ pc = "loop"
  /\ i = 4
  /\ unmatched_count = 1
  /\ matched_count = 1
  /\ lines[3] = LineEmpty
  /\ current_message_lines = << <<>> >>

(***************************************************************************)
(* C27. Three outcomes: every line read is a header match, a continuation  *)
(* buffered for the last record, or an unmatched line, and is exactly one  *)
(* of them, so matched_count plus the number of continuation lines plus    *)
(* unmatched_count is the number of lines read, during the pass and at its *)
(* end; and the pending buffer is empty right after a header is processed. *)
(***************************************************************************)
\* the outcome of the loop body for the k-th line, in the state the loop reached it
OutcomeAt(k) ==
  BranchOfLine(PassOverLines(1, k - 1), NormalizeLine(lines[k])).outcome

\* the positions of the lines read with the given outcomes
ReadWith(outcomes) == {k \in 1..(i - 1) : OutcomeAt(k) \in outcomes}

ThreeOutcomes ==
  /\ \A k \in 1..(i - 1) : OutcomeAt(k) \in {"header", "continuation", "unmatched"}
  /\ matched_count = Cardinality(ReadWith({"header"}))
  /\ unmatched_count = Cardinality(ReadWith({"unmatched"}))
  /\ matched_count + Cardinality(ReadWith({"continuation"})) + unmatched_count = i - 1
  /\ PassOver => i - 1 = Len(lines)

\* a step that matches a header leaves the pending buffer empty
HeaderEmptiesBuffer ==
  (pc = "loop" /\ matched_count' = matched_count + 1) => current_message_lines' = <<>>

C27_ThreeOutcomes == []ThreeOutcomes /\ [][HeaderEmptiesBuffer]_vars

\* the pass is over a file with an unmatched line, a header and a continuation
C27_Witness ==
  /\ PassOver
  /\ Len(lines) = 3
  /\ unmatched_count = 1
  /\ matched_count = 1
  /\ Cardinality(ReadWith({"continuation"})) = 1

(***************************************************************************)
(* C23. Empty-parse response: when parse_chat_file returned an empty frame *)
(* the request is answered with status 400 and the detail "Could not parse *)
(* chat file or file is empty.", and nothing was transcribed or merged.    *)
(***************************************************************************)
\* the request was answered after parse_chat_file returned an empty frame
AnsweredEmptyParse == handler = "responded" /\ pc = "done" /\ result = <<>>

C23_EmptyParseAnswered400 ==
  AnsweredEmptyParse =>
    /\ response.status_code = 400
    /\ response.detail = COULD_NOT_PARSE
    /\ transcriptions = <<>>
    /\ merged = <<>>

(***************************************************************************)
(* C24. Temporary directory: whenever a request whose archive was          *)
(* extracted has been answered, with a result or with an error, the        *)
(* extraction directory has been cleaned up.                               *)
(***************************************************************************)
\* the request was answered after extract_zip returned
AnsweredAfterExtraction ==
  handler = "responded" /\ upload.zip_name /\ upload.archive # "corrupt"

C24_TempDirCleanedBeforeAnswer ==
  AnsweredAfterExtraction => temp_dir = "cleaned"

====
